---- MODULE Spec2Model ----
(***************************************************************************)
(* Selection / camera-guard controller of the "Universe" views of          *)
(* ComVerse: the home page (Frontend/src/App.tsx) and the user space       *)
(* (pages/UserSpace.tsx).  Both hold the React state                       *)
(*   selectedPlanet, isAnimating, communities / userCommunities            *)
(* and the handlers handleSearchSelect, handlePlanetClick, handleEscape.   *)
(* Guard windows are host timers (setTimeout); time is counted in ms.      *)
(* The camera animator (components/UniverseCanvas) is modelled from its    *)
(* documented contract: Idle -> Running -> {Completed, Cancelled} -> Idle. *)
(***************************************************************************)
EXTENDS Integers, Sequences, FiniteSets, TLC

(* ------------------------------ bounds -------------------------------- *)
MaxBodies == 2
MaxArmed == 2
MaxInFlight == 1
TickMs == 1850
MaxPlaced == 500

(* ------------------------- program constants -------------------------- *)
SearchGuardMs == 3700
ClickGuardMs == 1250
TripleSpinDurationMs == 3700
DirectEaseDurationMs == 1250

null == 0 - 1000

Min(a, b) == IF a <= b THEN a ELSE b

(* JavaScript % : the result takes the sign of the dividend *)
JsMod(a, b) == IF a >= 0 THEN a % b ELSE 0 - ((0 - a) % b)

(* --------------------------- backend records -------------------------- *)
CommunityTypes == <<"GAMING", "ART", "LEGACY">>

Dto(k) == [id |-> 100 + k, name |-> k, type |-> CommunityTypes[1 + (k % 3)]]

AllDtos == [k \in 1..MaxBodies |-> Dto(k)]

(* what the backend may answer: a prefix of the records, or the last alone *)
Responses == {SubSeq(AllDtos, 1, n) : n \in 0..MaxBodies} \cup {<<Dto(MaxBodies)>>}

(* --------------------------- visual derivation ------------------------ *)
mapTypeToCategory(type) ==
  CASE type = "GAMING" -> "Gaming"
    [] type = "ART" -> "Art & Design"
    [] OTHER -> "Other"

colors == <<"#28f5cc", "#04ad7b">>

(* variant: the color picked by the record's id instead of its position *)
generateVisualProperties_ColorById(dto, index) ==
  [category |-> mapTypeToCategory(dto.type),
   members |-> 1000 + JsMod(index, 50) * 1000,
   color |-> colors[1 + JsMod(dto.id, Len(colors))],
   size |-> 80 + JsMod(index, 5) * 20,
   position3D |-> [angle10 |-> JsMod(index * 1375, 3600),
                   radius |-> 8 + JsMod(index, 3) * 2,
                   height |-> JsMod(index, 7) - 3],
   orbitSpeed |-> 8 + JsMod(index, 5) * 3,
   orbitRadius |-> 3 + JsMod(index, 4)]

(* variant: the radius cycling over four tiers instead of three *)
generateVisualProperties_FourRadii(dto, index) ==
  [category |-> mapTypeToCategory(dto.type),
   members |-> 1000 + JsMod(index, 50) * 1000,
   color |-> colors[1 + JsMod(index, Len(colors))],
   size |-> 80 + JsMod(index, 5) * 20,
   position3D |-> [angle10 |-> JsMod(index * 1375, 3600),
                   radius |-> 8 + JsMod(index, 4) * 2,
                   height |-> JsMod(index, 7) - 3],
   orbitSpeed |-> 8 + JsMod(index, 5) * 3,
   orbitRadius |-> 3 + JsMod(index, 4)]

(* variant: every body on the same height *)
generateVisualProperties_FlatHeight(dto, index) ==
  [category |-> mapTypeToCategory(dto.type),
   members |-> 1000 + JsMod(index, 50) * 1000,
   color |-> colors[1 + JsMod(index, Len(colors))],
   size |-> 80 + JsMod(index, 5) * 20,
   position3D |-> [angle10 |-> JsMod(index * 1375, 3600),
                   radius |-> 8 + JsMod(index, 3) * 2,
                   height |-> 0],
   orbitSpeed |-> 8 + JsMod(index, 5) * 3,
   orbitRadius |-> 3 + JsMod(index, 4)]

(* position3D = [cos(angle) * radius, height, sin(angle) * radius]; radius   *)
(* is positive and angle is in [0, 360), so the point is determined by and   *)
(* determines (angle, radius, height).  angle is kept in tenths of a degree, *)
(* orbitSpeed in hundredths, orbitRadius in tenths.                          *)
generateVisualProperties(dto, index) ==
  [category |-> mapTypeToCategory(dto.type),
   members |-> 1000 + JsMod(index, 50) * 1000,
   color |-> colors[1 + JsMod(index, Len(colors))],
   size |-> 80 + JsMod(index, 5) * 20,
   position3D |-> [angle10 |-> JsMod(index * 1375, 3600),
                   radius |-> 8 + JsMod(index, 3) * 2,
                   height |-> JsMod(index, 7) - 3],
   orbitSpeed |-> 8 + JsMod(index, 5) * 3,
   orbitRadius |-> 3 + JsMod(index, 4)]

mapDtoToCommunity(dto, index) ==
  [id |-> dto.id, name |-> dto.name,
   visuals |-> generateVisualProperties(dto, index)]

(* data.map((dto, index) => mapDtoToCommunity(dto, index)); index is 0-based *)
MapCommunities(data) == [k \in 1..Len(data) |-> mapDtoToCommunity(data[k], k - 1)]

(* communities[index] of a JavaScript array: undefined outside 0..length-1 *)
IsDefinedAt(list, index) == index >= 0 /\ index < Len(list)

At(list, index) == list[index + 1]

(* ------------------------------- state -------------------------------- *)
VARIABLES
  universe,              \* "home" (App) or "userspace" (UserSpace)
  communities,           \* communities / userCommunities
  isLoadingCommunities,
  communitiesError,      \* TRUE when communitiesError is not null
  inflight,              \* list requests awaiting their response
  selectedPlanet,        \* null or the stored index
  isAnimating,
  timers,                \* pending setTimeout callbacks: ms left to each
  anim,                  \* the camera animator behind canvasRef
  pose,                  \* the camera pose the last frame update left
  crashed,               \* a render threw: the view is unmounted
  armed,                 \* number of setTimeout calls made so far
  out,                   \* what the last handler call or timer callback did
  lastAccept,            \* the last accepted selection and the time since
  currentPage,           \* currentPage of App / currentView of UserSpace
  selectedCommunity,     \* <<>> for null, else the one opened community
  twin                   \* a UserSpace controller run beside the one of App

vars == <<universe, communities, isLoadingCommunities, communitiesError,
          inflight, selectedPlanet, isAnimating, timers, anim, pose, crashed,
          armed, out, lastAccept, currentPage, selectedCommunity, twin>>

(* the navigation state, which no handler of the universe view writes, and   *)
(* the controller run beside it for comparison                               *)
nav == <<currentPage, selectedCommunity>>

Indices == (0 - 1)..MaxBodies

Keys == {"Escape", "a"}

Users == 0..1

NoTarget == [angle10 |-> 0, radius |-> 0, height |-> 0]

InitialPose == [lookAt |-> NoTarget, extraYaw |-> 0]

IdleAnim == [state |-> "Idle", target |-> NoTarget, spin |-> FALSE, elapsed |-> 0,
             progress |-> 0, start |-> InitialPose, via |-> "none"]

(* held: the call named the index that was selected already *)
NoCall == [op |-> "none", index |-> null, accepted |-> FALSE,
           requests |-> <<>>, armed |-> <<>>, cancels |-> 0, threw |-> FALSE,
           held |-> FALSE]

NoAccept == [mode |-> "none", index |-> null, elapsed |-> 0,
             quiet |-> FALSE, cancelled |-> FALSE]

(* the guard delay armed by an accepted selection of the given mode *)
GuardOf(mode) == IF mode = "search" THEN SearchGuardMs ELSE ClickGuardMs

(* ------------------------------ rendering ----------------------------- *)
(* The block holding the search bar, the canvas with its planets and the   *)
(* announcement: App renders it when loaded without error, UserSpace only  *)
(* when the list is also non-empty.                                        *)
UniverseShown(u, loading, error, list) ==
  /\ ~loading
  /\ ~error
  /\ (u = "userspace" => Len(list) > 0)

(* the page on which the component renders its universe view: App falls    *)
(* through to it when no other page matches, UserSpace likewise             *)
ViewPage(u) == IF u = "home" THEN "home" ELSE "space"

ViewShown == currentPage = ViewPage(universe)

(* UserSpace is unmounted when App leaves its 'userspace' page *)
Mounted == currentPage # "unmounted"

CanvasMounted ==
  /\ ViewShown
  /\ UniverseShown(universe, isLoadingCommunities, communitiesError, communities)

HasSelection(sel, list) == sel # null /\ sel < Len(list)

OpenCommunityButtonShown == HasSelection(selectedPlanet, communities)

(* `Centered on ${communities[selectedPlanet].name}...` or '' ; 0 is '' *)
Announcement ==
  IF HasSelection(selectedPlanet, communities)
    THEN At(communities, selectedPlanet).name
    ELSE 0

isSelected(index) == selectedPlanet = index

isDimmed(index) == selectedPlanet # null /\ selectedPlanet # index

isBlurred(index) == selectedPlanet # null /\ selectedPlanet # index

(* the announcement reads .name of communities[selectedPlanet]: a TypeError *)
(* during render when that element is undefined                             *)
ViewThrows(u, loading, error, list, sel) ==
  /\ UniverseShown(u, loading, error, list)
  /\ HasSelection(sel, list)
  /\ ~IsDefinedAt(list, sel)

RenderThrows(u, loading, error, list, sel) ==
  /\ ViewShown
  /\ ViewThrows(u, loading, error, list, sel)

(* --------------------------- camera animator -------------------------- *)
NominalDurationMs(spin) == IF spin THEN TripleSpinDurationMs ELSE DirectEaseDurationMs

SpinTurns == 3

(* normalized progress in thousandths: elapsed / nominal duration, clamped *)
Progress(a) == Min(1000, (a.elapsed * 1000) \div NominalDurationMs(a.spin))

(* ease-in-out on thousandths, rounded down: 2t^2 up to the middle,        *)
(* 1 - 2(1-t)^2 after                                                       *)
Ease(p) ==
  IF 2 * p <= 1000
    THEN (2 * p * p) \div 1000
    ELSE 1000 - ((2 * (1000 - p) * (1000 - p) + 999) \div 1000)

Lerp(from, to, e) == from + (((to - from) * e) \div 1000)

(* variant: the spin runs at twice the pace and stops at three turns *)
PoseAt_YawEarly(a, e) ==
  [lookAt |-> [angle10 |-> Lerp(a.start.lookAt.angle10, a.target.angle10, e),
               radius |-> Lerp(a.start.lookAt.radius, a.target.radius, e),
               height |-> Lerp(a.start.lookAt.height, a.target.height, e)],
   extraYaw |-> IF a.spin THEN Min(SpinTurns * 360000, 2 * SpinTurns * 360 * e) ELSE 0]

(* the pose at eased progress e; extraYaw in thousandths of a degree *)
PoseAt(a, e) ==
  [lookAt |-> [angle10 |-> Lerp(a.start.lookAt.angle10, a.target.angle10, e),
               radius |-> Lerp(a.start.lookAt.radius, a.target.radius, e),
               height |-> Lerp(a.start.lookAt.height, a.target.height, e)],
   extraYaw |-> IF a.spin THEN SpinTurns * 360 * e ELSE 0]

(* variant: a start that replaces a running animation *)
animateToTarget_Restarts(a, ps, target, spin) ==
  [state |-> "Running", target |-> target, spin |-> spin, elapsed |-> 0,
   progress |-> 0, start |-> ps, via |-> "none"]

animateToTarget(a, ps, target, spin) ==
  IF a.state = "Running"
    THEN a
    ELSE [state |-> "Running", target |-> target, spin |-> spin, elapsed |-> 0,
          progress |-> 0, start |-> ps, via |-> "none"]

(* variant: a cancel that is recorded whatever the animator was doing *)
cancelAnimation_FromIdle(a) == [IdleAnim EXCEPT !.via = "Cancelled"]

cancelAnimation(a) ==
  IF a.state = "Running"
    THEN [IdleAnim EXCEPT !.via = "Cancelled"]
    ELSE a

(* variant: a frame that never completes the animation *)
FrameAnim_StaysRunning(a) ==
  IF a.state = "Running" THEN [a EXCEPT !.progress = Progress(a)] ELSE a

(* one frame of the render loop: the animator after it, and the pose *)
FrameAnim(a) ==
  IF a.state = "Running"
    THEN IF Progress(a) = 1000
           THEN [IdleAnim EXCEPT !.via = "Completed"]
           ELSE [a EXCEPT !.progress = Progress(a)]
    ELSE a

(* variant: a frame of an animator that is not Running snaps to its target *)
FramePose_SnapsToTarget(a, ps) ==
  IF a.state = "Running" THEN PoseAt(a, Ease(Progress(a))) ELSE PoseAt(a, 1000)

FramePose(a, ps) ==
  IF a.state = "Running" THEN PoseAt(a, Ease(Progress(a))) ELSE ps

(* ------------------------------- Init --------------------------------- *)
(* a controller of UserSpace as mounted: lines 94-104 of its source *)
FreshTwin ==
  [selectedPlanet |-> null, isAnimating |-> FALSE, timers |-> <<>>,
   userCommunities |-> <<>>, isLoadingCommunities |-> TRUE,
   communitiesError |-> FALSE, requests |-> <<>>, armed |-> <<>>,
   threw |-> FALSE, crashed |-> FALSE]

Init ==
  /\ universe \in {"home", "userspace"}
  /\ communities = <<>>
  /\ communitiesError = FALSE
  /\ \E u \in (IF universe = "userspace" THEN Users ELSE {1}) :
       IF u = 0
         THEN isLoadingCommunities = FALSE /\ inflight = 0
         ELSE isLoadingCommunities = TRUE /\ inflight = 1
  /\ selectedPlanet = null
  /\ isAnimating = FALSE
  /\ timers = <<>>
  /\ anim = IdleAnim
  /\ pose = InitialPose
  /\ crashed = FALSE
  /\ armed = 0
  /\ out = NoCall
  /\ lastAccept = NoAccept
  /\ currentPage = ViewPage(universe)
  /\ selectedCommunity = <<>>
  /\ twin = FreshTwin

(* ------------------------------ handlers ------------------------------ *)
Ignored(op) == [NoCall EXCEPT !.op = op]

Touch(la) == [la EXCEPT !.quiet = FALSE]

(* the accepted branch shared by the two handlers: setIsAnimating(true),    *)
(* setSelectedPlanet(index), canvasRef.current?.animateToTarget(...),       *)
(* setTimeout(() => setIsAnimating(false), guard)                           *)
Select(op, index, spin, guard) ==
  IF IsDefinedAt(communities, index) \/ ~CanvasMounted
    THEN
      LET target == At(communities, index).visuals.position3D
          reqs == IF CanvasMounted THEN <<[target |-> target, spin |-> spin]>> ELSE <<>>
      IN  /\ armed < MaxArmed
          /\ armed' = armed + 1
          /\ isAnimating' = TRUE
          /\ selectedPlanet' = index
          /\ anim' = IF CanvasMounted THEN animateToTarget(anim, pose, target, spin) ELSE anim
          /\ timers' = Append(timers, guard)
          /\ crashed' = RenderThrows(universe, isLoadingCommunities,
                                     communitiesError, communities, index)
          /\ out' = [op |-> op, index |-> index, accepted |-> TRUE,
                     requests |-> reqs, armed |-> <<guard>>, cancels |-> 0,
                     threw |-> FALSE, held |-> (selectedPlanet = index)]
          /\ lastAccept' = [mode |-> op, index |-> index, elapsed |-> 0,
                            quiet |-> TRUE, cancelled |-> FALSE]
    ELSE
      \* communities[index] is undefined: reading .position3D throws after
      \* the two state updates were queued and before the timer is armed
      /\ isAnimating' = TRUE
      /\ selectedPlanet' = index
      /\ crashed' = RenderThrows(universe, isLoadingCommunities,
                                 communitiesError, communities, index)
      /\ out' = [op |-> op, index |-> index, accepted |-> TRUE,
                 requests |-> <<>>, armed |-> <<>>, cancels |-> 0,
                 threw |-> TRUE, held |-> FALSE]
      /\ lastAccept' = Touch(lastAccept)
      /\ UNCHANGED <<anim, timers, armed>>

(* variant of the guard that forgets the isAnimating test *)
Rejects_IgnoresAnimating(index) == index >= Len(communities)

(* variant of the guard that also waits for every pending timer *)
Rejects_WhileTimerPending(index) ==
  isAnimating \/ timers # <<>> \/ index >= Len(communities)

(* if (isAnimating || index >= communities.length) return; *)
Rejects(index) == isAnimating \/ index >= Len(communities)

(* variant: the search handler with the click mode and delay *)
handleSearchSelect_AsClick(index) ==
  /\ ~crashed
  /\ CanvasMounted
  /\ IF Rejects(index)
       THEN /\ out' = Ignored("search")
            /\ lastAccept' = Touch(lastAccept)
            /\ UNCHANGED <<selectedPlanet, isAnimating, timers, anim, crashed, armed>>
       ELSE Select("search", index, FALSE, ClickGuardMs)
  /\ UNCHANGED <<universe, communities, isLoadingCommunities,
                 communitiesError, inflight, pose>>

(* variant: the search handler with the toggle-off branch of the click *)
handleSearchSelect_Toggles(index) ==
  /\ ~crashed
  /\ CanvasMounted
  /\ IF Rejects(index)
       THEN /\ out' = Ignored("search")
            /\ lastAccept' = Touch(lastAccept)
            /\ UNCHANGED <<selectedPlanet, isAnimating, timers, anim, crashed, armed>>
       ELSE IF selectedPlanet = index
         THEN /\ selectedPlanet' = null
              /\ out' = [Ignored("search") EXCEPT !.index = index, !.accepted = TRUE]
              /\ lastAccept' = Touch(lastAccept)
              /\ UNCHANGED <<isAnimating, timers, anim, crashed, armed>>
         ELSE Select("search", index, TRUE, SearchGuardMs)
  /\ UNCHANGED <<universe, communities, isLoadingCommunities,
                 communitiesError, inflight, pose>>

handleSearchSelect(index) ==
  /\ ~crashed
  /\ CanvasMounted
  /\ IF Rejects(index)
       THEN /\ out' = Ignored("search")
            /\ lastAccept' = Touch(lastAccept)
            /\ UNCHANGED <<selectedPlanet, isAnimating, timers, anim, crashed, armed>>
       ELSE Select("search", index, TRUE, SearchGuardMs)
  /\ UNCHANGED <<universe, communities, isLoadingCommunities,
                 communitiesError, inflight, pose>>

(* variant: the click handler with the search mode and delay *)
handlePlanetClick_Spins(index) ==
  /\ ~crashed
  /\ CanvasMounted
  /\ IF Rejects(index)
       THEN /\ out' = Ignored("click")
            /\ lastAccept' = Touch(lastAccept)
            /\ UNCHANGED <<selectedPlanet, isAnimating, timers, anim, crashed, armed>>
       ELSE IF selectedPlanet = index
         THEN /\ selectedPlanet' = null
              /\ out' = [Ignored("click") EXCEPT !.index = index, !.accepted = TRUE]
              /\ lastAccept' = Touch(lastAccept)
              /\ UNCHANGED <<isAnimating, timers, anim, crashed, armed>>
         ELSE Select("click", index, TRUE, SearchGuardMs)
  /\ UNCHANGED <<universe, communities, isLoadingCommunities,
                 communitiesError, inflight, pose>>

(* variant: the click handler without the toggle-off branch *)
handlePlanetClick_NoToggle(index) ==
  /\ ~crashed
  /\ CanvasMounted
  /\ IF Rejects(index)
       THEN /\ out' = Ignored("click")
            /\ lastAccept' = Touch(lastAccept)
            /\ UNCHANGED <<selectedPlanet, isAnimating, timers, anim, crashed, armed>>
       ELSE IF FALSE
         THEN /\ selectedPlanet' = null
              /\ out' = [Ignored("click") EXCEPT !.index = index, !.accepted = TRUE]
              /\ lastAccept' = Touch(lastAccept)
              /\ UNCHANGED <<isAnimating, timers, anim, crashed, armed>>
         ELSE Select("click", index, FALSE, ClickGuardMs)
  /\ UNCHANGED <<universe, communities, isLoadingCommunities,
                 communitiesError, inflight, pose>>

handlePlanetClick(index) ==
  /\ ~crashed
  /\ CanvasMounted
  /\ IF Rejects(index)
       THEN /\ out' = Ignored("click")
            /\ lastAccept' = Touch(lastAccept)
            /\ UNCHANGED <<selectedPlanet, isAnimating, timers, anim, crashed, armed>>
       ELSE IF selectedPlanet = index
         THEN /\ selectedPlanet' = null
              /\ out' = [Ignored("click") EXCEPT !.index = index, !.accepted = TRUE]
              /\ lastAccept' = Touch(lastAccept)
              /\ UNCHANGED <<isAnimating, timers, anim, crashed, armed>>
         ELSE Select("click", index, FALSE, ClickGuardMs)
  /\ UNCHANGED <<universe, communities, isLoadingCommunities,
                 communitiesError, inflight, pose>>

(* variant: Escape without setIsAnimating(false) *)
handleEscape_KeepsFlag(key) ==
  /\ ~crashed
  /\ Mounted
  /\ IF key = "Escape"
       THEN /\ anim' = IF CanvasMounted THEN cancelAnimation(anim) ELSE anim
            /\ selectedPlanet' = null
            /\ isAnimating' = isAnimating
            /\ out' = [Ignored("escape") EXCEPT
                         !.accepted = TRUE,
                         !.cancels = IF CanvasMounted THEN 1 ELSE 0]
            /\ lastAccept' = [Touch(lastAccept) EXCEPT !.cancelled = TRUE, !.index = null]
       ELSE UNCHANGED <<anim, selectedPlanet, isAnimating, out, lastAccept>>
  /\ UNCHANGED <<universe, communities, isLoadingCommunities,
                 communitiesError, inflight, timers, pose, crashed, armed>>

handleEscape(key) ==
  /\ ~crashed
  /\ Mounted
  /\ IF key = "Escape"
       THEN /\ anim' = IF CanvasMounted THEN cancelAnimation(anim) ELSE anim
            /\ selectedPlanet' = null
            /\ isAnimating' = FALSE
            /\ out' = [Ignored("escape") EXCEPT
                         !.accepted = TRUE,
                         !.cancels = IF CanvasMounted THEN 1 ELSE 0]
            /\ lastAccept' = [Touch(lastAccept) EXCEPT !.cancelled = TRUE, !.index = null]
       ELSE UNCHANGED <<anim, selectedPlanet, isAnimating, out, lastAccept>>
  /\ UNCHANGED <<universe, communities, isLoadingCommunities,
                 communitiesError, inflight, timers, pose, crashed, armed>>

(* -------------------------- timers and frames ------------------------- *)
Remove(s, k) == [j \in 1..(Len(s) - 1) |-> IF j < k THEN s[j] ELSE s[j + 1]]

(* what a timer callback did: accepted when it found isAnimating true *)
Fired(was) == [Ignored("timer") EXCEPT !.accepted = was]

(* variant: a timer callback that leaves isAnimating as it is *)
FireTimer_NoClear(k) ==
  /\ ~crashed
  /\ k \in 1..Len(timers)
  /\ timers[k] = 0
  /\ timers' = Remove(timers, k)
  /\ isAnimating' = isAnimating
  /\ out' = Fired(isAnimating)
  /\ UNCHANGED <<universe, communities, isLoadingCommunities,
                 communitiesError, inflight, selectedPlanet, anim, pose, crashed,
                 armed, lastAccept>>

(* variant: a timer callback that also drops the selection *)
FireTimer_Deselects(k) ==
  /\ ~crashed
  /\ k \in 1..Len(timers)
  /\ timers[k] = 0
  /\ timers' = Remove(timers, k)
  /\ isAnimating' = FALSE
  /\ selectedPlanet' = null
  /\ out' = Fired(isAnimating)
  /\ UNCHANGED <<universe, communities, isLoadingCommunities,
                 communitiesError, inflight, anim, pose, crashed,
                 armed, lastAccept>>

(* the callback of setTimeout: () => setIsAnimating(false) *)
FireTimer(k) ==
  /\ ~crashed
  /\ k \in 1..Len(timers)
  /\ timers[k] = 0
  /\ timers' = Remove(timers, k)
  /\ isAnimating' = FALSE
  /\ out' = Fired(isAnimating)
  /\ UNCHANGED <<universe, communities, isLoadingCommunities,
                 communitiesError, inflight, selectedPlanet, anim, pose, crashed,
                 armed, lastAccept>>

RECURSIVE MinOf(_, _)
MinOf(s, d) == IF s = <<>> THEN d ELSE MinOf(Tail(s), Min(Head(s), d))

(* the render loop owes a frame: time moved since the last one *)
FrameDue == CanvasMounted /\ anim.state = "Running" /\ anim.progress # Progress(anim)

(* time passes, never beyond the next timer that is due nor past a frame *)
Tick ==
  /\ ~crashed
  /\ ~FrameDue
  /\ LET d == MinOf(timers, TickMs)
     IN  /\ d > 0
         /\ timers' = [k \in 1..Len(timers) |-> timers[k] - d]
         /\ anim' = IF anim.state = "Running"
                      THEN [anim EXCEPT !.elapsed =
                              Min(@ + d, NominalDurationMs(anim.spin))]
                      ELSE anim
         /\ lastAccept' = IF lastAccept.mode = "none"
                            THEN lastAccept
                            ELSE [lastAccept EXCEPT !.elapsed =
                                    Min(@ + d, GuardOf(lastAccept.mode))]
  /\ UNCHANGED <<universe, communities, isLoadingCommunities,
                 communitiesError, inflight, selectedPlanet, isAnimating,
                 pose, crashed, armed, out>>

(* a frame of the host render loop, run while the canvas is mounted *)
FrameUpdate ==
  /\ ~crashed
  /\ CanvasMounted
  /\ anim' = FrameAnim(anim)
  /\ pose' = FramePose(anim, pose)
  /\ UNCHANGED <<universe, communities, isLoadingCommunities,
                 communitiesError, inflight, selectedPlanet, isAnimating,
                 timers, crashed, armed, out, lastAccept>>

(* ------------------------------ list fetch ---------------------------- *)
(* variant: an animator that follows the list it was given a position of *)
AnimAfter_Retargets(u, loading, error, list) ==
  IF UniverseShown(u, loading, error, list)
    THEN IF anim.state = "Running" /\ ~IsDefinedAt(list, selectedPlanet)
           THEN [anim EXCEPT !.target = NoTarget]
           ELSE anim
    ELSE IdleAnim

(* the canvas is unmounted with its block: a remounted canvas starts Idle *)
AnimAfter(u, loading, error, list) ==
  IF UniverseShown(u, loading, error, list) THEN anim ELSE IdleAnim

PoseAfter(u, loading, error, list) ==
  IF UniverseShown(u, loading, error, list) THEN pose ELSE InitialPose

(* variant: a response that also drops the selection *)
FetchDone_ClearsSelection(data) ==
  /\ ~crashed
  /\ inflight > 0
  /\ inflight' = inflight - 1
  /\ communities' = MapCommunities(data)
  /\ isLoadingCommunities' = FALSE
  /\ anim' = AnimAfter(universe, FALSE, communitiesError, MapCommunities(data))
  /\ pose' = PoseAfter(universe, FALSE, communitiesError, MapCommunities(data))
  /\ selectedPlanet' = null
  /\ crashed' = FALSE
  /\ UNCHANGED <<universe, communitiesError,
                 isAnimating, timers, armed, out, lastAccept>>

FetchDone(data) ==
  /\ ~crashed
  /\ inflight > 0
  /\ inflight' = inflight - 1
  /\ communities' = MapCommunities(data)
  /\ isLoadingCommunities' = FALSE
  /\ anim' = AnimAfter(universe, FALSE, communitiesError, MapCommunities(data))
  /\ pose' = PoseAfter(universe, FALSE, communitiesError, MapCommunities(data))
  /\ crashed' = RenderThrows(universe, FALSE, communitiesError,
                             MapCommunities(data), selectedPlanet)
  /\ UNCHANGED <<universe, communitiesError, selectedPlanet,
                 isAnimating, timers, armed, out, lastAccept>>

FetchFail ==
  /\ ~crashed
  /\ inflight > 0
  /\ inflight' = inflight - 1
  /\ communitiesError' = TRUE
  /\ isLoadingCommunities' = FALSE
  /\ anim' = IdleAnim
  /\ pose' = InitialPose
  /\ UNCHANGED <<universe, communities, selectedPlanet, isAnimating,
                 timers, crashed, armed, out, lastAccept>>

(* useEffect(..., [user?.id]) of UserSpace runs again when the id changes:  *)
(* to none (u = 0) or to another user.  The id itself is not kept: with no  *)
(* user isLoading is false, so a change to none that finds none changes     *)
(* nothing.                                                                 *)
UserChange(u) ==
  /\ ~crashed
  /\ Mounted
  /\ universe = "userspace"
  /\ IF u = 0
       THEN /\ isLoadingCommunities' = FALSE
            /\ UNCHANGED <<communitiesError, inflight>>
            /\ anim' = AnimAfter(universe, FALSE, communitiesError, communities)
            /\ pose' = PoseAfter(universe, FALSE, communitiesError, communities)
       ELSE /\ inflight < MaxInFlight
            /\ inflight' = inflight + 1
            /\ isLoadingCommunities' = TRUE
            /\ communitiesError' = FALSE
            /\ anim' = IdleAnim
            /\ pose' = InitialPose
  /\ UNCHANGED <<universe, communities, selectedPlanet, isAnimating, timers,
                 crashed, armed, out, lastAccept>>

(* ------------------------------ navigation ---------------------------- *)
(* what every page change leaves alone *)
NavKeeps ==
  UNCHANGED <<universe, communities, isLoadingCommunities, communitiesError,
              inflight, isAnimating, timers, armed, twin>>

(* the canvas leaves the tree with the universe view; a later one starts new *)
CanvasUnmounts == anim' = IdleAnim /\ pose' = InitialPose

(* a callback that writes no selection state: the page alone changes *)
GoTo(from, to) ==
  /\ ~crashed
  /\ currentPage = from
  /\ currentPage' = to
  /\ CanvasUnmounts
  /\ crashed' = (to = ViewPage(universe)
                  /\ ViewThrows(universe, isLoadingCommunities, communitiesError,
                                communities, selectedPlanet))
  /\ out' = Ignored("nav")
  /\ lastAccept' = Touch(lastAccept)
  /\ UNCHANGED <<selectedPlanet, selectedCommunity>>
  /\ NavKeeps

(* OpenCommunityButton onClick: setSelectedCommunity(communities[selectedPlanet]); *)
(* setCurrentPage('community').  App renders the button inside the block of  *)
(* the canvas, UserSpace beside it.                                          *)
OpenCommunity ==
  /\ ~crashed
  /\ ViewShown
  /\ universe = "home"
       => UniverseShown(universe, isLoadingCommunities, communitiesError, communities)
  /\ OpenCommunityButtonShown
  /\ selectedCommunity' = <<At(communities, selectedPlanet)>>
  /\ currentPage' = "community"
  /\ CanvasUnmounts
  /\ out' = Ignored("nav")
  /\ lastAccept' = Touch(lastAccept)
  /\ UNCHANGED <<selectedPlanet, crashed>>
  /\ NavKeeps

(* setCurrentPage('home') / setCurrentView('space'); setSelectedPlanet(null); *)
(* setSelectedCommunity(null): onBack of both, onGoToHome of App and         *)
(* onGoToUserSpace of UserSpace                                               *)
BackToView ==
  /\ ~crashed
  /\ currentPage = "community"
  /\ currentPage' = ViewPage(universe)
  /\ selectedPlanet' = null
  /\ selectedCommunity' = <<>>
  /\ out' = Ignored("nav")
  /\ lastAccept' = Touch(lastAccept)
  /\ UNCHANGED <<anim, pose, crashed>>
  /\ NavKeeps

CommunityPage_onBack == BackToView

CommunityPage_onGoToHome == universe = "home" /\ BackToView

(* App: setCurrentPage('userspace'); setSelectedCommunity(null) *)
CommunityPage_onGoToUserSpace ==
  IF universe = "home"
    THEN /\ ~crashed
         /\ currentPage = "community"
         /\ currentPage' = "userspace"
         /\ selectedCommunity' = <<>>
         /\ out' = Ignored("nav")
         /\ lastAccept' = Touch(lastAccept)
         /\ UNCHANGED <<selectedPlanet, anim, pose, crashed>>
         /\ NavKeeps
    ELSE BackToView

(* App: Header onNavigateToUserSpace and the 'Take Me To My Space' button *)
onNavigateToUserSpace == universe = "home" /\ GoTo("home", "userspace")

(* App: Header onNavigateToProfile; UserSpace: the user identity button *)
onNavigateToProfile == GoTo(ViewPage(universe), "profile")

UserProfile_onBack == GoTo("profile", ViewPage(universe))

(* App: onBackToHome={() => setCurrentPage('home')} of the UserSpace page *)
onBackToHome == universe = "home" /\ GoTo("userspace", "home")

(* UserSpace: its onBackToHome prop, called by the back button and by        *)
(* onGoToHome of its community page, makes App unmount it: its state is      *)
(* dropped, its key listener removed, and what its pending timers and        *)
(* requests later write goes to a component that is no more                  *)
Unmount ==
  /\ ~crashed
  /\ universe = "userspace"
  /\ currentPage \in {"space", "community"}
  /\ currentPage' = "unmounted"
  /\ communities' = <<>>
  /\ isLoadingCommunities' = TRUE
  /\ communitiesError' = FALSE
  /\ inflight' = 0
  /\ selectedPlanet' = null
  /\ isAnimating' = FALSE
  /\ timers' = <<>>
  /\ CanvasUnmounts
  /\ out' = NoCall
  /\ lastAccept' = NoAccept
  /\ selectedCommunity' = <<>>
  /\ UNCHANGED <<universe, crashed, armed, twin>>

(* App renders UserSpace again: a new instance with the state of lines 94-104 *)
Remount(u) ==
  /\ universe = "userspace"
  /\ currentPage = "unmounted"
  /\ currentPage' = "space"
  /\ IF u = 0
       THEN isLoadingCommunities' = FALSE /\ inflight' = 0
       ELSE isLoadingCommunities' = TRUE /\ inflight' = 1
  /\ UNCHANGED <<universe, communities, communitiesError, selectedPlanet,
                 isAnimating, timers, anim, pose, crashed, armed, out,
                 lastAccept, selectedCommunity, twin>>

(* ------------------- the controller of UserSpace, alone --------------- *)
(* The handlers of pages/UserSpace.tsx as functions of a controller record   *)
(* t (FreshTwin), translated from its own text, to be run beside App's.      *)
UserSpace_generateVisualProperties(dto, index) ==
  LET palette == <<"#28f5cc", "#04ad7b">>
  IN  [category |-> mapTypeToCategory(dto.type),
       members |-> 1000 + JsMod(index, 50) * 1000,
       color |-> palette[1 + JsMod(index, Len(palette))],
       size |-> 80 + JsMod(index, 5) * 20,
       position3D |-> [angle10 |-> JsMod(index * 1375, 3600),
                       radius |-> 8 + JsMod(index, 3) * 2,
                       height |-> JsMod(index, 7) - 3],
       orbitSpeed |-> 8 + JsMod(index, 5) * 3,
       orbitRadius |-> 3 + JsMod(index, 4)]

UserSpace_mapDtoToCommunity(dto, index) ==
  [id |-> dto.id, name |-> dto.name,
   visuals |-> UserSpace_generateVisualProperties(dto, index)]

(* the block of the canvas, with the view 'space' shown *)
UserSpace_CanvasMounted(t) ==
  /\ ~t.crashed
  /\ ~t.isLoadingCommunities
  /\ ~t.communitiesError
  /\ Len(t.userCommunities) > 0

(* the announcement of the next render reads userCommunities[selectedPlanet] *)
UserSpace_RenderThrows(t) ==
  /\ ~t.isLoadingCommunities
  /\ ~t.communitiesError
  /\ Len(t.userCommunities) > 0
  /\ t.selectedPlanet # null
  /\ t.selectedPlanet < Len(t.userCommunities)
  /\ t.selectedPlanet < 0

UserSpace_Quiet(t) == [t EXCEPT !.requests = <<>>, !.armed = <<>>, !.threw = FALSE]

(* setIsAnimating(true); setSelectedPlanet(index);                           *)
(* canvasRef.current?.animateToTarget(userCommunities[index].position3D, s); *)
(* setTimeout(() => setIsAnimating(false), delay)                            *)
UserSpace_Accept(t, index, spin, delay) ==
  LET set == [t EXCEPT !.isAnimating = TRUE, !.selectedPlanet = index]
  IN  IF ~UserSpace_CanvasMounted(t)
        THEN [UserSpace_Quiet(set) EXCEPT
                !.timers = Append(@, delay), !.armed = <<delay>>]
        ELSE IF index < 0
          THEN [UserSpace_Quiet(set) EXCEPT
                  !.threw = TRUE, !.crashed = UserSpace_RenderThrows(set)]
          ELSE [set EXCEPT
                  !.requests =
                    <<[target |-> t.userCommunities[index + 1].visuals.position3D,
                       spin |-> spin]>>,
                  !.timers = Append(@, delay),
                  !.armed = <<delay>>,
                  !.threw = FALSE]

UserSpace_handleSearchSelect(t, index) ==
  IF t.isAnimating \/ index >= Len(t.userCommunities)
    THEN UserSpace_Quiet(t)
    ELSE UserSpace_Accept(t, index, TRUE, 3700)

(* variant: the click handler of UserSpace with the delay of the search *)
UserSpace_handlePlanetClick_LongGuard(t, index) ==
  IF t.isAnimating \/ index >= Len(t.userCommunities)
    THEN UserSpace_Quiet(t)
    ELSE IF t.selectedPlanet = index
      THEN [UserSpace_Quiet(t) EXCEPT !.selectedPlanet = null]
      ELSE UserSpace_Accept(t, index, FALSE, 3700)

UserSpace_handlePlanetClick(t, index) ==
  IF t.isAnimating \/ index >= Len(t.userCommunities)
    THEN UserSpace_Quiet(t)
    ELSE IF t.selectedPlanet = index
      THEN [UserSpace_Quiet(t) EXCEPT !.selectedPlanet = null]
      ELSE UserSpace_Accept(t, index, FALSE, 1250)

UserSpace_handleEscape(t, key) ==
  IF key = "Escape"
    THEN [UserSpace_Quiet(t) EXCEPT !.selectedPlanet = null, !.isAnimating = FALSE]
    ELSE t

UserSpace_FireTimer(t, k) ==
  [UserSpace_Quiet(t) EXCEPT !.timers = Remove(@, k), !.isAnimating = FALSE]

UserSpace_Elapse(t, d) == [t EXCEPT !.timers = [k \in 1..Len(@) |-> @[k] - d]]

(* setUserCommunities(data.map(...)); setIsLoadingCommunities(false) *)
UserSpace_FetchDone(t, data) ==
  LET got == [t EXCEPT
                !.userCommunities =
                  [k \in 1..Len(data) |-> UserSpace_mapDtoToCommunity(data[k], k - 1)],
                !.isLoadingCommunities = FALSE]
  IN  [got EXCEPT !.crashed = UserSpace_RenderThrows(got)]

UserSpace_FetchFail(t) ==
  [t EXCEPT !.communitiesError = TRUE, !.isLoadingCommunities = FALSE]

(* ------------------------------ behaviour ----------------------------- *)
(* the universe view alone: no page is left, no second controller runs *)
Next ==
  \/ \E index \in Indices : handleSearchSelect(index) /\ UNCHANGED <<nav, twin>>
  \/ \E index \in Indices : handlePlanetClick(index) /\ UNCHANGED <<nav, twin>>
  \/ \E key \in Keys : handleEscape(key) /\ UNCHANGED <<nav, twin>>
  \/ \E k \in 1..MaxArmed : FireTimer(k) /\ UNCHANGED <<nav, twin>>
  \/ Tick /\ UNCHANGED <<nav, twin>>
  \/ FrameUpdate /\ UNCHANGED <<nav, twin>>
  \/ \E data \in Responses : FetchDone(data) /\ UNCHANGED <<nav, twin>>
  \/ FetchFail /\ UNCHANGED <<nav, twin>>
  \/ \E u \in Users : UserChange(u) /\ UNCHANGED <<nav, twin>>

Spec == Init /\ [][Next]_vars

(* the universe view with the pages around it *)
NavNext ==
  \/ Next
  \/ OpenCommunity
  \/ CommunityPage_onBack
  \/ CommunityPage_onGoToHome
  \/ CommunityPage_onGoToUserSpace
  \/ onNavigateToUserSpace
  \/ onNavigateToProfile
  \/ UserProfile_onBack
  \/ onBackToHome
  \/ Unmount
  \/ \E u \in Users : Remount(u)

NavSpec == Init /\ [][NavNext]_vars

(* the two controllers side by side: lists of the same length, the same     *)
(* picks, keys, timer firings and time, a pick only when both show a canvas  *)
TwinInit == Init /\ universe = "home"

TwinNext ==
  \/ \E index \in Indices :
       /\ UserSpace_CanvasMounted(twin)
       /\ handleSearchSelect(index)
       /\ twin' = UserSpace_handleSearchSelect(twin, index)
       /\ UNCHANGED nav
  \/ \E index \in Indices :
       /\ UserSpace_CanvasMounted(twin)
       /\ handlePlanetClick(index)
       /\ twin' = UserSpace_handlePlanetClick(twin, index)
       /\ UNCHANGED nav
  \/ \E key \in Keys :
       /\ handleEscape(key)
       /\ twin' = UserSpace_handleEscape(twin, key)
       /\ UNCHANGED nav
  \/ \E k \in 1..MaxArmed :
       /\ FireTimer(k)
       /\ twin' = UserSpace_FireTimer(twin, k)
       /\ UNCHANGED nav
  \/ /\ Tick
     /\ twin' = UserSpace_Elapse(twin, MinOf(timers, TickMs))
     /\ UNCHANGED nav
  \/ FrameUpdate /\ UNCHANGED <<nav, twin>>
  \/ \E data, other \in Responses :
       /\ Len(other) = Len(data)
       /\ FetchDone(data)
       /\ twin' = UserSpace_FetchDone(twin, other)
       /\ UNCHANGED nav
  \/ /\ FetchFail
     /\ twin' = UserSpace_FetchFail(twin)
     /\ UNCHANGED nav

TwinSpec == TwinInit /\ [][TwinNext]_vars

(* ============================== claims ================================ *)
SelectionEffectsNone ==
  /\ UNCHANGED <<selectedPlanet, isAnimating, timers, anim, armed>>
  /\ out'.requests = <<>>
  /\ out'.armed = <<>>

(* C1: while isAnimating is true, a handleSearchSelect or handlePlanetClick  *)
(* call with any index changes neither selectedPlanet nor isAnimating,       *)
(* issues no camera request and arms no timer.                               *)
C1_RejectedWhileAnimating ==
  [][\A index \in Indices :
       (isAnimating /\ (handleSearchSelect(index) \/ handlePlanetClick(index)))
         => (SelectionEffectsNone /\ ~out'.accepted /\ ~out'.threw)]_vars

(* a selection call on a non-empty list was turned down, the flag still up *)
C1_Witness ==
  /\ isAnimating
  /\ out.op \in {"search", "click"}
  /\ ~out.accepted
  /\ Len(communities) > 0

(* C2: an Escape press is taken in every state of the mounted view; right    *)
(* after it selectedPlanet is null and isAnimating is false, whatever guard  *)
(* timer is still pending, and the canvas got a cancelAnimation call.        *)
C2_CancelAlwaysAccepted ==
  /\ [](~crashed => ENABLED handleEscape("Escape"))
  /\ [][handleEscape("Escape")
          => /\ selectedPlanet' = null
             /\ isAnimating' = FALSE
             /\ timers' = timers
             /\ (CanvasMounted => out'.cancels = 1 /\ anim'.state = "Idle")]_vars

(* Escape inside the 1250 ms window of a click: its timer is still pending *)
C2_Witness ==
  /\ out.op = "escape"
  /\ lastAccept.mode = "click"
  /\ lastAccept.cancelled
  /\ lastAccept.elapsed < ClickGuardMs
  /\ timers # <<>>
  /\ selectedPlanet = null
  /\ ~isAnimating
  /\ out.cancels = 1

(* C3: with isAnimating false and a valid index, handleSearchSelect selects  *)
(* the index, raises isAnimating, issues one triple-spin request at that     *)
(* body's position and arms one 3700 ms timer.                               *)
C3_SearchSelects ==
  [][\A index \in Indices :
       (~isAnimating /\ IsDefinedAt(communities, index) /\ handleSearchSelect(index))
         => /\ selectedPlanet' = index
            /\ isAnimating' = TRUE
            /\ out'.requests =
                 <<[target |-> At(communities, index).visuals.position3D,
                    spin |-> TRUE]>>
            /\ out'.armed = <<SearchGuardMs>>
            /\ timers' = Append(timers, SearchGuardMs)]_vars

C3_Witness ==
  /\ out.op = "search"
  /\ out.accepted
  /\ Len(out.requests) = 1
  /\ out.requests[1].spin
  /\ out.armed = <<3700>>
  /\ selectedPlanet = out.index
  /\ isAnimating
  /\ anim.state = "Running"
  /\ anim.spin

(* C4: with isAnimating false, a valid index and another (or no) body        *)
(* selected, handlePlanetClick selects the index, raises isAnimating, issues *)
(* one direct-ease request at that body's position and arms one 1250 ms      *)
(* timer.                                                                    *)
C4_ClickSelects ==
  [][\A index \in Indices :
       (/\ ~isAnimating
        /\ IsDefinedAt(communities, index)
        /\ selectedPlanet # index
        /\ handlePlanetClick(index))
         => /\ selectedPlanet' = index
            /\ isAnimating' = TRUE
            /\ out'.requests =
                 <<[target |-> At(communities, index).visuals.position3D,
                    spin |-> FALSE]>>
            /\ out'.armed = <<ClickGuardMs>>
            /\ timers' = Append(timers, ClickGuardMs)]_vars

C4_Witness ==
  /\ out.op = "click"
  /\ out.accepted
  /\ Len(out.requests) = 1
  /\ ~out.requests[1].spin
  /\ out.armed = <<1250>>
  /\ selectedPlanet = out.index
  /\ isAnimating
  /\ anim.state = "Running"
  /\ ~anim.spin

(* C5: a click on the selected body while isAnimating is false deselects it  *)
(* without a camera request or a timer; while isAnimating is true the same   *)
(* click leaves it selected.                                                 *)
C5_ToggleOff ==
  [][\A index \in Indices :
       (/\ IsDefinedAt(communities, index)
        /\ selectedPlanet = index
        /\ handlePlanetClick(index))
         => /\ selectedPlanet' = (IF isAnimating THEN index ELSE null)
            /\ isAnimating' = isAnimating
            /\ out'.requests = <<>>
            /\ out'.armed = <<>>
            /\ UNCHANGED <<timers, anim>>]_vars

(* the second click on k, made after the guard of the first had cleared *)
C5_Witness ==
  /\ out.op = "click"
  /\ out.accepted
  /\ out.requests = <<>>
  /\ out.armed = <<>>
  /\ lastAccept.mode = "click"
  /\ lastAccept.index = out.index
  /\ ~lastAccept.cancelled
  /\ selectedPlanet = null
  /\ ~isAnimating
  /\ timers = <<>>

(* C6: a handleSearchSelect or handlePlanetClick call whose index is not an  *)
(* index of the list (below 0, or at or beyond its length) changes nothing,  *)
(* issues no request, arms no timer and throws nothing.                      *)
C6_OutOfRangeDropped ==
  [][\A index \in Indices :
       (/\ ~IsDefinedAt(communities, index)
        /\ (handleSearchSelect(index) \/ handlePlanetClick(index)))
         => /\ SelectionEffectsNone
            /\ ~out'.threw
            /\ ~crashed']_vars

Duration(mode) == IF mode = "search" THEN TripleSpinDurationMs ELSE DirectEaseDurationMs

(* C7: while the animation of the last accepted selection has run for less   *)
(* than its nominal duration and no Escape came since, isAnimating is true.  *)
C7_AnimatingWhileInTransit ==
  (/\ ~crashed
   /\ lastAccept.mode \in {"search", "click"}
   /\ ~lastAccept.cancelled
   /\ lastAccept.elapsed < Duration(lastAccept.mode))
    => isAnimating

(* C8: a request that reaches the animator while it is Running leaves the    *)
(* running animation as it is: one animation at a time, nothing restarted.   *)
C8_RunningAnimationKept ==
  [][\A index \in Indices :
       (/\ anim.state = "Running"
        /\ out'.requests # <<>>
        /\ (handleSearchSelect(index) \/ handlePlanetClick(index)))
         => anim' = anim]_vars

(* a request for another body arrived while the animator was Running *)
C8_Witness ==
  /\ out.op \in {"search", "click"}
  /\ Len(out.requests) = 1
  /\ anim.state = "Running"
  /\ anim.target # out.requests[1].target
  /\ selectedPlanet = out.index

Stale == selectedPlanet # null /\ ~IsDefinedAt(communities, selectedPlanet)

(* C9: in a mounted view whose stored index is not an index of the shown     *)
(* list, every reader reports no selection: no open button, no announcement, *)
(* no body selected, dimmed or blurred.                                      *)
C9_StaleReadsAsNone ==
  (CanvasMounted /\ ~crashed /\ Stale)
    => /\ ~OpenCommunityButtonShown
       /\ Announcement = 0
       /\ \A index \in 0..(Len(communities) - 1) :
            ~isSelected(index) /\ ~isDimmed(index) /\ ~isBlurred(index)

NoTimerDue == \A k \in 1..Len(timers) : timers[k] > 0

(* C10: after an accepted selection with no call after it, the index stays   *)
(* selected, and once the guard window (3700 ms search, 1250 ms click) has   *)
(* elapsed and the due callbacks have run, isAnimating is false for good;    *)
(* isAnimating is never true without a pending timer that will clear it.     *)
C10_GuardClears ==
  /\ (~crashed /\ isAnimating) => timers # <<>>
  /\ (lastAccept.mode \in {"search", "click"} /\ lastAccept.quiet)
       => /\ selectedPlanet = lastAccept.index
          /\ (lastAccept.elapsed >= GuardOf(lastAccept.mode) /\ NoTimerDue)
               => ~isAnimating

C10_Witness ==
  /\ lastAccept.mode = "search"
  /\ lastAccept.quiet
  /\ lastAccept.elapsed >= 3700
  /\ selectedPlanet = lastAccept.index
  /\ ~isAnimating
  /\ timers = <<>>

(* C11: an Escape press leaves the pose as the last frame made it and puts  *)
(* the animator out of Running at once; a TripleSpin cancelled at progress   *)
(* 0.5 keeps the eased half of its three turns (540 degrees), strictly       *)
(* between no turn and the full three; a frame of an animator that is not    *)
(* Running leaves the pose unchanged.                                        *)
C11_CancelFreezesPose ==
  [][/\ (handleEscape("Escape") /\ CanvasMounted)
          => /\ pose' = pose
             /\ anim'.state = "Idle"
             /\ (anim.state = "Running" /\ anim.progress > 0)
                  => pose' = PoseAt(anim, Ease(anim.progress))
             /\ (anim.state = "Running" /\ anim.spin /\ anim.progress = 500)
                  => pose'.extraYaw = 540000
             /\ (anim.state = "Running" /\ anim.spin
                   /\ anim.progress > 0 /\ anim.progress < 1000)
                  => (pose'.extraYaw > 0 /\ pose'.extraYaw < SpinTurns * 360000)
     /\ (anim.state # "Running" /\ FrameUpdate) => pose' = pose]_vars

(* a search-driven spin was cancelled half way: the camera stays there *)
C11_Witness ==
  /\ out.op = "escape"
  /\ anim.via = "Cancelled"
  /\ pose.extraYaw = 540000
  /\ pose.lookAt # NoTarget
  /\ selectedPlanet = null

(* the fields of a body that the scene draws from *)
Placement(v) == <<v.position3D, v.orbitRadius, v.orbitSpeed, v.size, v.color>>

(* C12: in every list the view holds, the position, orbit, size and color   *)
(* of the body at position i are those the derivation gives at i for any    *)
(* record whatever; so they are the same in every list that has a position  *)
(* i, whichever record sits there and whenever it was fetched.              *)
C12_VisualsByPosition ==
  \A i \in 0..(Len(communities) - 1) : \A k \in 1..MaxBodies :
    Placement(At(communities, i).visuals)
      = Placement(generateVisualProperties(Dto(k), i))

(* position 0 holds the last record of the backend, placed as any first body *)
C12_Witness ==
  /\ Len(communities) = 1
  /\ At(communities, 0).id = Dto(MaxBodies).id
  /\ At(communities, 0).visuals.position3D.angle10 = 0
  /\ At(communities, 0).visuals.color = colors[1]

(* ----------------------- placement of a long list --------------------- *)
(* data.map((dto, index) => mapDtoToCommunity(dto, index)) on a response of  *)
(* MaxPlaced records, one element at a time.                                 *)
PlacementInit ==
  /\ universe = "home"
  /\ communities = <<>>
  /\ communitiesError = FALSE
  /\ isLoadingCommunities = TRUE
  /\ inflight = 1
  /\ selectedPlanet = null
  /\ isAnimating = FALSE
  /\ timers = <<>>
  /\ anim = IdleAnim
  /\ pose = InitialPose
  /\ crashed = FALSE
  /\ armed = 0
  /\ out = NoCall
  /\ lastAccept = NoAccept
  /\ currentPage = ViewPage(universe)
  /\ selectedCommunity = <<>>
  /\ twin = FreshTwin

PlaceBody ==
  /\ Len(communities) < MaxPlaced
  /\ communities' = Append(communities,
                           mapDtoToCommunity(Dto(Len(communities) + 1), Len(communities)))
  /\ UNCHANGED <<universe, isLoadingCommunities, communitiesError, inflight,
                 selectedPlanet, isAnimating, timers, anim, pose, crashed, armed,
                 out, lastAccept, nav, twin>>

PlacementNext == PlaceBody

PlacementSpec == PlacementInit /\ [][PlacementNext]_vars

(* C13: among the bodies of a list of up to 500 records no two have the same *)
(* (angle, radius, height), hence no two the same position3D.                *)
C13_NoTwoCoincide ==
  \A i, j \in 0..(Len(communities) - 1) :
    i # j => At(communities, i).visuals.position3D # At(communities, j).visuals.position3D

C13_Witness ==
  /\ Len(communities) = MaxPlaced
  /\ At(communities, 144).visuals.position3D.angle10 = 0
  /\ At(communities, 144).visuals.position3D.radius = 8
  /\ At(communities, 144).visuals.position3D.height # 0 - 3

(* C14: an Escape press leaves no guard timer pending, at most one guard     *)
(* timer is pending at any time, and a callback that runs while the window   *)
(* of the last accepted selection is open leaves isAnimating as it is.       *)
C14_CancelClearsTimer ==
  /\ [](Len(timers) <= 1)
  /\ [][/\ handleEscape("Escape") => timers' = <<>>
        /\ \A k \in 1..MaxArmed :
             (/\ FireTimer(k)
              /\ lastAccept.mode \in {"search", "click"}
              /\ ~lastAccept.cancelled
              /\ lastAccept.elapsed < GuardOf(lastAccept.mode))
               => isAnimating' = isAnimating]_vars

(* C15: a timer callback changes isAnimating at most: it leaves the          *)
(* selection, the camera pose, the animator and the list as they are, and    *)
(* when isAnimating is already false it leaves that too; a frame update,     *)
(* the completing one included, never writes isAnimating.                    *)
C15_ClearingIdempotent ==
  [][/\ \A k \in 1..MaxArmed :
          FireTimer(k)
            => /\ isAnimating' = FALSE
               /\ UNCHANGED <<selectedPlanet, pose, anim, communities, crashed>>
               /\ (~isAnimating => UNCHANGED isAnimating)
     /\ FrameUpdate => UNCHANGED <<isAnimating, selectedPlanet>>]_vars

(* the callback of a cancelled selection ran after Escape had cleared the flag *)
C15_Witness ==
  /\ out.op = "timer"
  /\ ~out.accepted
  /\ lastAccept.cancelled
  /\ ~isAnimating
  /\ selectedPlanet = null

(* C16: the animator is Idle or Running.  It leaves Idle only through a      *)
(* request of a handler, starting at elapsed 0; while the canvas stays       *)
(* mounted it leaves Running only as Completed, in a frame whose progress    *)
(* is 1, or as Cancelled, in an Escape press; an Escape press that finds it  *)
(* Idle leaves the animator and the pose as they are.                        *)
C16_AnimatorStateMachine ==
  /\ [](/\ anim.state \in {"Idle", "Running"}
        /\ anim.via \in {"none", "Completed", "Cancelled"}
        /\ (anim.state = "Running" => anim.via = "none"))
  /\ [][/\ (anim.state = "Idle" /\ anim'.state = "Running")
             => /\ out'.requests # <<>>
                /\ anim'.elapsed = 0
                /\ anim'.target = out'.requests[1].target
        /\ (anim.state = "Running" /\ anim'.state = "Idle" /\ CanvasMounted')
             => \/ anim'.via = "Completed" /\ FrameUpdate /\ Progress(anim) = 1000
                \/ anim'.via = "Cancelled" /\ handleEscape("Escape")
        /\ (anim.state = "Idle" /\ anim'.state = "Idle" /\ CanvasMounted')
             => anim' = anim
        /\ (handleEscape("Escape") /\ anim.state = "Idle")
             => (anim' = anim /\ pose' = pose)]_vars

(* Escape after a completed animation: the animator stays as completion left it *)
C16_Witness ==
  /\ out.op = "escape"
  /\ out.cancels = 1
  /\ anim.state = "Idle"
  /\ anim.via = "Completed"

(* C17: progress is min(1, elapsed / nominal duration), within 0..1 (in      *)
(* thousandths), and does not decrease while the animation runs; the frame   *)
(* that finds progress 1 completes the animation and leaves the camera on    *)
(* the target, a frame that finds less keeps it Running, and frames after    *)
(* completion leave the pose alone.                                          *)
C17_ProgressMonotone ==
  /\ [](/\ anim.progress \in 0..1000
        /\ Progress(anim) \in 0..1000
        /\ anim.progress <= Progress(anim)
        /\ (anim.state = "Running" /\ anim.elapsed < NominalDurationMs(anim.spin))
             => Progress(anim) < 1000)
  /\ [][/\ (anim.state = "Running" /\ anim'.state = "Running")
             => /\ anim'.progress >= anim.progress
                /\ Progress(anim') >= Progress(anim)
                /\ anim'.target = anim.target
        /\ (anim.state = "Running" /\ Progress(anim) = 1000 /\ FrameUpdate)
             => /\ anim'.state = "Idle"
                /\ anim'.via = "Completed"
                /\ pose'.lookAt = anim.target
        /\ (anim.state = "Running" /\ Progress(anim) < 1000 /\ FrameUpdate)
             => /\ anim'.state = "Running"
                /\ anim'.progress = Progress(anim)
        /\ (anim.via = "Completed" /\ FrameUpdate) => pose' = pose]_vars

(* a click-driven move ran to its end: the camera rests on the selected body *)
C17_Witness ==
  /\ anim.via = "Completed"
  /\ IsDefinedAt(communities, selectedPlanet)
  /\ pose.lookAt = At(communities, selectedPlanet).visuals.position3D
  /\ pose.extraYaw = 0
  /\ lastAccept.mode = "click"

(* C18: in a frame of a running TripleSpin the extra yaw is three turns      *)
(* times the eased progress that also places the look-at point; it is 1080   *)
(* degrees in the frame that finds progress 1 and less in every other; in a  *)
(* frame of a running DirectEase it is 0.                                    *)
C18_SpinYaw ==
  [][(anim.state = "Running" /\ FrameUpdate)
       => /\ pose'.lookAt = PoseAt(anim, Ease(Progress(anim))).lookAt
          /\ anim.spin
               => /\ pose'.extraYaw = 3 * 360 * Ease(Progress(anim))
                  /\ pose'.extraYaw >= pose.extraYaw \/ anim.progress = 0
                  /\ pose'.extraYaw <= 1080000
                  /\ (pose'.extraYaw = 1080000) <=> (Progress(anim) = 1000)
          /\ ~anim.spin => pose'.extraYaw = 0]_vars

(* a search-driven spin ran to its end: three full turns were added *)
C18_Witness ==
  /\ anim.via = "Completed"
  /\ pose.extraYaw = 1080000
  /\ lastAccept.mode = "search"
  /\ lastAccept.elapsed = TripleSpinDurationMs

(* C19: a response that replaces the list, and the start of a refetch,       *)
(* leave selectedPlanet, isAnimating and the pending timers as they are,     *)
(* whatever the length of the new list.                                      *)
C19_RefetchKeepsSelection ==
  [][/\ \A data \in Responses :
          (inflight' < inflight /\ FetchDone(data))
            => UNCHANGED <<selectedPlanet, isAnimating, timers>>
     /\ \A u \in Users :
          UserChange(u) => UNCHANGED <<selectedPlanet, isAnimating, timers>>
     /\ FetchFail => UNCHANGED <<selectedPlanet, isAnimating, timers>>]_vars

(* a shorter list arrived inside the guard window: the index is kept *)
C19_Witness ==
  /\ ~crashed
  /\ selectedPlanet >= Len(communities)
  /\ isAnimating
  /\ timers # <<>>
  /\ ~isLoadingCommunities

(* C20: the position handed to the animator is that of the body at the       *)
(* index in the list as the handler sees it, and a list that arrives while   *)
(* the animation runs on a mounted canvas leaves the animation, its target   *)
(* included, as it is.                                                       *)
C20_TargetByValue ==
  [][/\ out'.requests # <<>>
          => \A index \in Indices :
               (handleSearchSelect(index) \/ handlePlanetClick(index))
                 => /\ out'.requests[1].target
                        = At(communities, index).visuals.position3D
                    /\ anim.state = "Idle" => anim'.target = out'.requests[1].target
     /\ (anim.state = "Running" /\ CanvasMounted')
          => \A data \in Responses :
               (inflight' < inflight /\ FetchDone(data)) => anim' = anim]_vars

(* the list shrank under a running animation: its target is no longer in it *)
C20_Witness ==
  /\ anim.state = "Running"
  /\ lastAccept.quiet
  /\ selectedPlanet = lastAccept.index
  /\ selectedPlanet >= Len(communities)
  /\ anim.target = generateVisualProperties(Dto(1), selectedPlanet).position3D
  /\ \A i \in 0..(Len(communities) - 1) :
       At(communities, i).visuals.position3D # anim.target

(* C21: at every position i >= 0 of a mapped list the radius is              *)
(* 8 + (i mod 3) * 2, one of 8, 10, 12; the height is (i mod 7) - 3, within  *)
(* -3..3; the size is 80 + (i mod 5) * 20, one of 80..160 in steps of 20;    *)
(* the orbit radius and speed are the (i mod 4)-th and (i mod 5)-th tier     *)
(* (0.3 + 0.1 k in tenths, 0.08 + 0.03 k in hundredths); the color is the    *)
(* (i mod 2)-th of the two palette entries, never undefined.                 *)
C21_DerivedTiers ==
  \A i \in 0..(Len(communities) - 1) :
    LET v == At(communities, i).visuals
    IN  /\ v.position3D.radius = 8 + (i % 3) * 2
        /\ v.position3D.radius \in {8, 10, 12}
        /\ v.position3D.height = (i % 7) - 3
        /\ v.position3D.height \in (0 - 3)..3
        /\ v.size = 80 + (i % 5) * 20
        /\ v.size \in {80, 100, 120, 140, 160}
        /\ v.orbitRadius = <<3, 4, 5, 6>>[1 + (i % 4)]
        /\ v.orbitSpeed = <<8, 11, 14, 17, 20>>[1 + (i % 5)]
        /\ v.color = colors[1 + (i % Len(colors))]
        /\ v.color \in {"#28f5cc", "#04ad7b"}

(* position 104 has the widest radius, the top height and the largest size *)
C21_Witness ==
  /\ Len(communities) > 104
  /\ At(communities, 104).visuals.position3D.radius = 12
  /\ At(communities, 104).visuals.position3D.height = 3
  /\ At(communities, 104).visuals.size = 160
  /\ At(communities, 104).visuals.orbitSpeed = 20
  /\ At(communities, 104).visuals.color = colors[1]

(* C22: a response of any length is mapped to a list of the same length      *)
(* whose body at each position carries the id of the record at that          *)
(* position; an empty response gives the empty list and no error; and while  *)
(* the list is empty every handleSearchSelect or handlePlanetClick call is   *)
(* rejected: nothing changes, no request, no timer, nothing thrown.          *)
C22_DeriveTotalOrdered ==
  [][/\ \A data \in Responses :
          (inflight' < inflight /\ FetchDone(data))
            => /\ Len(communities') = Len(data)
               /\ \A k \in 1..Len(data) : communities'[k].id = data[k].id
               /\ (data = <<>>) => (communities' = <<>> /\ ~crashed')
     /\ (communities = <<>>)
          => \A index \in Indices :
               (handleSearchSelect(index) \/ handlePlanetClick(index))
                 => /\ SelectionEffectsNone
                    /\ ~out'.accepted
                    /\ ~out'.threw
                    /\ ~crashed']_vars

(* C23: run side by side on lists of the same length and given the same      *)
(* picks, clicks, keys, timer firings and time, the controller of App and    *)
(* the controller of UserSpace agree after every step on selectedPlanet,     *)
(* isAnimating, the pending guard timers, the camera request and the timer   *)
(* of the last call, and on whether the view survived; and their lists       *)
(* place, orbit, size and color the body at each position alike.             *)
C23_ControllersEquivalent ==
  /\ twin.selectedPlanet = selectedPlanet
  /\ twin.isAnimating = isAnimating
  /\ twin.timers = timers
  /\ twin.requests = out.requests
  /\ twin.armed = out.armed
  /\ twin.threw = out.threw
  /\ twin.crashed = crashed
  /\ Len(twin.userCommunities) = Len(communities)
  /\ \A k \in 1..Len(communities) :
       Placement(twin.userCommunities[k].visuals) = Placement(communities[k].visuals)

(* after an Escape both took a search pick, on lists of different records *)
C23_Witness ==
  /\ out.op = "search"
  /\ out.accepted
  /\ twin.requests # <<>>
  /\ twin.requests = out.requests
  /\ Len(twin.timers) = 2
  /\ twin.isAnimating
  /\ twin.userCommunities[1].id # communities[1].id

(* C24: the Escape listener is bound exactly while the universe view is      *)
(* shown: while it is, every Escape press clears the selection and the flag  *)
(* and reaches cancelAnimation of the canvas, and another key changes no     *)
(* selection state; while it is not, an Escape press changes nothing of the  *)
(* controller.                                                               *)
C24_EscapeBoundToView ==
  /\ [](~crashed => (ViewShown <=> ENABLED handleEscape("Escape")))
  /\ [][/\ (ViewShown /\ handleEscape("Escape"))
             => /\ selectedPlanet' = null
                /\ isAnimating' = FALSE
                /\ CanvasMounted => out'.cancels = 1
        /\ handleEscape("a") => UNCHANGED <<selectedPlanet, isAnimating, timers, anim>>
        /\ (~ViewShown /\ handleEscape("Escape"))
             => UNCHANGED <<selectedPlanet, isAnimating>>]_vars

(* C25: with isAnimating false, a handleSearchSelect call for the index that *)
(* is selected already keeps it selected, raises isAnimating, issues one     *)
(* triple-spin request at that body's position and arms one 3700 ms timer;   *)
(* no handleSearchSelect call ever leaves a selection empty that was not.    *)
C25_SearchNeverTogglesOff ==
  [][(selectedPlanet # null /\ out'.op = "search")
       => \A index \in Indices :
            handleSearchSelect(index)
              => /\ selectedPlanet' # null
                 /\ (/\ ~isAnimating
                      /\ IsDefinedAt(communities, index)
                      /\ selectedPlanet = index)
                      => /\ selectedPlanet' = index
                         /\ isAnimating' = TRUE
                         /\ out'.requests =
                              <<[target |-> At(communities, index).visuals.position3D,
                                 spin |-> TRUE]>>
                         /\ out'.armed = <<SearchGuardMs>>
                         /\ timers' = Append(timers, SearchGuardMs)]_vars

(* the selected body was picked again in the search bar: it spins anew *)
C25_Witness ==
  /\ out.op = "search"
  /\ out.accepted
  /\ out.held
  /\ selectedPlanet = out.index
  /\ isAnimating
  /\ anim.state = "Running"
  /\ anim.spin
  /\ anim.start.lookAt = anim.target

(* C26: on every page, whenever isAnimating is true a body is selected.      *)
C26_AnimatingImpliesSelected ==
  (~crashed /\ Mounted /\ isAnimating) => selectedPlanet # null

(* C27: after an Escape press and until the next call or timer callback,     *)
(* isAnimating is false and nothing is selected, so a handleSearchSelect or  *)
(* handlePlanetClick call with a valid index is accepted: it selects the     *)
(* index, raises isAnimating, issues one request and arms its timer beside   *)
(* the timers still pending from before the Escape.                          *)
C27_CancelReenablesPicking ==
  /\ []((~crashed /\ out.op = "escape") => (~isAnimating /\ selectedPlanet = null))
  /\ [][\A index \in Indices :
          (/\ out.op = "escape"
           /\ IsDefinedAt(communities, index)
           /\ (handleSearchSelect(index) \/ handlePlanetClick(index)))
            => /\ out'.accepted
               /\ selectedPlanet' = index
               /\ isAnimating' = TRUE
               /\ Len(out'.requests) = 1
               /\ Len(out'.armed) = 1
               /\ timers' = Append(timers, out'.armed[1])]_vars

(* a pick was taken while the timer of the cancelled selection is pending *)
C27_Witness ==
  /\ out.op \in {"search", "click"}
  /\ out.accepted
  /\ lastAccept.elapsed = 0
  /\ isAnimating
  /\ Len(timers) = 2
  /\ timers[1] > 0
  /\ timers[1] < SearchGuardMs
  /\ timers[2] = out.armed[1]

(* C28: the community page is entered only by the open-community action,     *)
(* taken with selectedPlanet an index of the list; while the page is         *)
(* 'community' the opened community is the record the list holds at          *)
(* selectedPlanet; and a step from the community page to the universe view   *)
(* leaves selectedPlanet null and no community opened.                       *)
C28_CommunityPageEntry ==
  /\ []((~crashed /\ currentPage = "community")
         => /\ selectedCommunity # <<>>
            /\ IsDefinedAt(communities, selectedPlanet)
            /\ selectedCommunity[1] = At(communities, selectedPlanet))
  /\ [][/\ (currentPage # "community" /\ currentPage' = "community")
             => (OpenCommunity /\ IsDefinedAt(communities, selectedPlanet))
        /\ (currentPage = "community" /\ currentPage' = ViewPage(universe))
             => (selectedPlanet' = null /\ selectedCommunity' = <<>>)]_vars

====
